---------------------------- MODULE Spec2Model ----------------------------
(***************************************************************************)
(* A model of the spatial index of the delivery-routing engine: the       *)
(* quadtree of package spatial (Node.SubDivide, Node.InsertNode,          *)
(* Node.SearchTree, Node.RemoveNode) and its locked facade (QuadTree      *)
(* Insert, Remove, Update, Search, KNearest).                             *)
(*                                                                         *)
(* Numbers.  The code computes in float64.  The model keeps the kind of   *)
(* arithmetic and scales it down: a number is an integer count of the     *)
(* smallest positive value (One of them make 1.0), a value is             *)
(* representable when it has at most Prec significant bits, and every     *)
(* sum, difference and halving is rounded to the nearest representable    *)
(* value, ties to even, as IEEE-754 does with 53 bits.  Every coordinate  *)
(* the model feeds in is a multiple of 8.0, so all arithmetic on cells    *)
(* wide enough to separate two distinct inputs is exact, as it is in      *)
(* float64 for coordinates such as 0, 8, 16, 24, 32.                      *)
(***************************************************************************)
EXTENDS Integers, Sequences, FiniteSets, Bags, TLC

\* ------------------------------------------------------------------ bounds

\* Significant bits of a number (float64: 53).
Prec == 6
\* 2^FracBits of the smallest positive number make 1.0 (float64: 2^1074).
FracBits == 2
\* Depth of InsertNode recursion at which the goroutine stack is exhausted
\* (the Go runtime then aborts the process with "stack overflow").  A cell
\* of the root halves to width 0 after FracBits + 6 subdivisions, and a full
\* leaf of width and height 0 that receives a point it contains subdivides
\* into a first child equal to itself: recursion that gets this deep never
\* ends.
StackLimit == 12
\* Largest number of points the model stores at once.
MaxStored == 3
\* Largest leaf capacity a tree is created with.
MaxCapacity == 2
\* Largest k a caller asks KNearest for.
MaxK == 3
\* Number of concurrent callers.
NumThreads == 2
\* Largest number of calls the concurrent callers make in all.
MaxCalls == 4

\* ------------------------------------------------------------ arithmetic

RECURSIVE Pow2(_)
Pow2(n) ==
    IF n = 0 THEN 1 ELSE 2 * Pow2(n - 1)

One == Pow2(FracBits)

RECURSIVE BitLen(_)
BitLen(v) ==
    IF v = 0 THEN 0 ELSE 1 + BitLen(v \div 2)

\* v >= 0 rounded to Prec significant bits, ties to even.
RoundPos(v) ==
    IF BitLen(v) <= Prec THEN v
    ELSE LET ulp  == Pow2(BitLen(v) - Prec)
             q    == v \div ulp
             r    == v % ulp
             up   == (2 * r > ulp) \/ (2 * r = ulp /\ q % 2 = 1)
         IN  IF up THEN (q + 1) * ulp ELSE q * ulp

\* The largest magnitude the model computes with: 512.0.
MaxNum == 512 * One

\* RoundPos, tabulated.
RoundTab == [v \in 0..MaxNum |-> RoundPos(v)]

Round(v) ==
    IF v >= 0 THEN RoundTab[v] ELSE 0 - RoundTab[0 - v]

\* a + b and a - b of float64.
Add(a, b) == Round(a + b)

Sub(a, b) == Round(a - b)

\* w / 2 of float64: exact unless w is an odd count of the smallest
\* positive number, where the half rounds to the even neighbour.
HalfPos(w) ==
    IF w % 2 = 0 THEN w \div 2
    ELSE LET k == w \div 2 IN IF k % 2 = 0 THEN k ELSE k + 1

Half(w) ==
    IF w >= 0 THEN HalfPos(w) ELSE 0 - HalfPos(0 - w)

\* math.Max
Max2(a, b) == IF a >= b THEN a ELSE b

Max4(a, b, c, d) == Max2(Max2(a, b), Max2(c, d))

\* The float64 of the whole number g.
Float(g) == g * One

\* ---------------------------------------------------------------- types

Pt(x, y, d) == [X |-> Float(x), Y |-> Float(y), Data |-> d]

Rect(x, y, w, h) == [X |-> Float(x), Y |-> Float(y), Width |-> Float(w), Height |-> Float(h)]

\* A leaf: no children.  Children is <<>> (Children[0] == nil) or the four
\* children NW, NE, SW, SE.
NewNode(b, cap) ==
    [Bounds |-> b, Points |-> <<>>, Capacity |-> cap, Children |-> <<>>]

IsLeaf(n) == n.Children = <<>>

\* ------------------------------------------------------------- geometry

\* An overlap test on half-open intervals: rectangles that only touch do
\* not intersect.
IntersectsOpen(b, other) ==
    ~(  b.X >= Add(other.X, other.Width)
     \/ Add(b.X, b.Width) <= other.X
     \/ b.Y >= Add(other.Y, other.Height)
     \/ Add(b.Y, b.Height) <= other.Y)

Intersects(b, other) ==
    ~(  b.X > Add(other.X, other.Width)
     \/ Add(b.X, b.Width) < other.X
     \/ b.Y > Add(other.Y, other.Height)
     \/ Add(b.Y, b.Height) < other.Y)

Contains(b, point) ==
    /\ point.X >= b.X
    /\ point.X <= Add(b.X, b.Width)
    /\ point.Y <= Add(b.Y, b.Height)
    /\ point.Y >= b.Y

\* ------------------------------------------------------------------ Node

\* The four children SubDivide allocates, in the order NW, NE, SW, SE.
ChildBounds(b) ==
    LET x == b.X
        y == b.Y
        w == Half(b.Width)
        h == Half(b.Height)
    IN  << [X |-> x,         Y |-> y,         Width |-> w, Height |-> h],
           [X |-> Add(x, w), Y |-> y,         Width |-> w, Height |-> h],
           [X |-> x,         Y |-> Add(y, h), Width |-> w, Height |-> h],
           [X |-> Add(x, w), Y |-> Add(y, h), Width |-> w, Height |-> h] >>

\* The children the SubDivide of pkg/spatial/quadTree.go allocates: it halves
\* the node's origin, not its size, and puts the southern row at y - h.
DraftChildBounds(b) ==
    LET x == b.X
        y == b.Y
        w == Half(b.X)
        h == Half(b.Y)
    IN  << [X |-> x,         Y |-> y,         Width |-> w, Height |-> h],
           [X |-> Add(x, w), Y |-> y,         Width |-> w, Height |-> h],
           [X |-> x,         Y |-> Sub(y, h), Width |-> w, Height |-> h],
           [X |-> Add(x, w), Y |-> Sub(y, h), Width |-> w, Height |-> h] >>

\* The result of a call of InsertNode: the value returned, the node as the
\* call left it, and whether the call exhausted the stack.
Ret(ok, n, overflow) == [ok |-> ok, node |-> n, overflow |-> overflow]

RECURSIVE InsertNode(_, _, _)
RECURSIVE InsertChildren(_, _, _, _)
RECURSIVE Redistribute(_, _, _, _)
RECURSIVE SubDivide(_, _)

\* The loop "for i := 0; i < 4; i++ { if n.Children[i].InsertNode(point)
\* { return true } }; return false", from child i on.  A child that returns
\* false keeps whatever the call did to it.
InsertChildren(n, point, i, fuel) ==
    IF i > 4 THEN Ret(FALSE, n, FALSE)
    ELSE LET r  == InsertNode(n.Children[i], point, fuel)
             n2 == [n EXCEPT !.Children[i] = r.node]
         IN  IF r.overflow THEN Ret(FALSE, n2, TRUE)
             ELSE IF r.ok THEN Ret(TRUE, n2, FALSE)
             ELSE InsertChildren(n2, point, i + 1, fuel)

\* A redistribution that hands every point to the NW child.
RedistributeToFirst(n, pts, k, fuel) ==
    Ret(TRUE, [n EXCEPT !.Children[1].Points = pts], FALSE)

\* The loop of SubDivide over n.Points, from the k-th point on: each point
\* goes to the first child that accepts it, and the result is not looked at.
Redistribute(n, pts, k, fuel) ==
    IF k > Len(pts) THEN Ret(TRUE, n, FALSE)
    ELSE LET r == InsertChildren(n, pts[k], 1, fuel)
         IN  IF r.overflow THEN r
             ELSE Redistribute(r.node, pts, k + 1, fuel)

\* SubDivide without "n.Points = nil".
SubDivideKeepPoints(n, fuel) ==
    LET cb   == ChildBounds(n.Bounds)
        kids == [i \in 1..4 |-> NewNode(cb[i], n.Capacity)]
    IN  Redistribute([n EXCEPT !.Children = kids], n.Points, 1, fuel)

\* SubDivide that gives the children a Capacity of their own.
SubDivideCapacityOne(n, fuel) ==
    LET cb   == ChildBounds(n.Bounds)
        kids == [i \in 1..4 |-> NewNode(cb[i], 1)]
        r    == Redistribute([n EXCEPT !.Children = kids], n.Points, 1, fuel)
    IN  IF r.overflow THEN r
        ELSE Ret(TRUE, [r.node EXCEPT !.Points = <<>>], FALSE)

SubDivide(n, fuel) ==
    LET cb   == ChildBounds(n.Bounds)
        kids == [i \in 1..4 |-> NewNode(cb[i], n.Capacity)]
        r    == Redistribute([n EXCEPT !.Children = kids], n.Points, 1, fuel)
    IN  IF r.overflow THEN r
        ELSE Ret(TRUE, [r.node EXCEPT !.Points = <<>>], FALSE)

\* InsertNode without the test of the node's bounds.
InsertNodeNoBoundsCheck(n, point, fuel) ==
    IF fuel = 0 THEN Ret(FALSE, n, TRUE)
    ELSE IF ~IsLeaf(n) THEN InsertChildren(n, point, 1, fuel - 1)
    ELSE IF Len(n.Points) < n.Capacity
    THEN Ret(TRUE, [n EXCEPT !.Points = Append(@, point)], FALSE)
    ELSE LET d == SubDivide(n, fuel - 1)
         IN  IF d.overflow THEN d
             ELSE InsertChildren(d.node, point, 1, fuel - 1)

\* InsertNode that subdivides a leaf one point before it is full.
InsertNodeEager(n, point, fuel) ==
    IF fuel = 0 THEN Ret(FALSE, n, TRUE)
    ELSE IF ~Contains(n.Bounds, point) THEN Ret(FALSE, n, FALSE)
    ELSE IF ~IsLeaf(n) THEN InsertChildren(n, point, 1, fuel - 1)
    ELSE IF Len(n.Points) + 1 < n.Capacity
         THEN Ret(TRUE, [n EXCEPT !.Points = Append(@, point)], FALSE)
    ELSE LET s == SubDivide(n, fuel - 1)
         IN  IF s.overflow THEN s
             ELSE InsertChildren(s.node, point, 1, fuel - 1)

\* InsertNode with the room test off by one: "len(n.Points) <= n.Capacity".
InsertNodeOverfill(n, point, fuel) ==
    IF fuel = 0 THEN Ret(FALSE, n, TRUE)
    ELSE IF ~Contains(n.Bounds, point) THEN Ret(FALSE, n, FALSE)
    ELSE IF ~IsLeaf(n) THEN InsertChildren(n, point, 1, fuel - 1)
    ELSE IF Len(n.Points) <= n.Capacity
         THEN Ret(TRUE, [n EXCEPT !.Points = Append(@, point)], FALSE)
    ELSE LET s == SubDivide(n, fuel - 1)
         IN  IF s.overflow THEN s
             ELSE InsertChildren(s.node, point, 1, fuel - 1)

InsertNode(n, point, fuel) ==
    IF fuel = 0 THEN Ret(FALSE, n, TRUE)
    ELSE IF ~Contains(n.Bounds, point) THEN Ret(FALSE, n, FALSE)
    ELSE IF ~IsLeaf(n) THEN InsertChildren(n, point, 1, fuel - 1)
    ELSE IF Len(n.Points) < n.Capacity
         THEN Ret(TRUE, [n EXCEPT !.Points = Append(@, point)], FALSE)
    ELSE LET s == SubDivide(n, fuel - 1)
         IN  IF s.overflow THEN s
             ELSE InsertChildren(s.node, point, 1, fuel - 1)

\* The points of a leaf that searchArea contains, in the leaf's order.
RECURSIVE LeafMatches(_, _, _)
LeafMatches(pts, searchArea, k) ==
    IF k > Len(pts) THEN <<>>
    ELSE (IF Contains(searchArea, pts[k]) THEN <<pts[k]>> ELSE <<>>)
         \o LeafMatches(pts, searchArea, k + 1)

\* What SearchTree appends to resultPoints.
RECURSIVE SearchTree(_, _)
SearchTree(n, searchArea) ==
    IF ~Intersects(n.Bounds, searchArea) THEN <<>>
    ELSE IF ~IsLeaf(n)
         THEN SearchTree(n.Children[1], searchArea)
              \o SearchTree(n.Children[2], searchArea)
              \o SearchTree(n.Children[3], searchArea)
              \o SearchTree(n.Children[4], searchArea)
    ELSE LeafMatches(n.Points, searchArea, 1)

\* A match that does not look at the coordinates.
FirstMatchAny(pts, point, k) == IF k > Len(pts) THEN 0 ELSE k

\* Index of the first point of pts with point's coordinates, 0 if none.
RECURSIVE FirstMatch(_, _, _)
FirstMatch(pts, point, k) ==
    IF k > Len(pts) THEN 0
    ELSE IF pts[k].X = point.X /\ pts[k].Y = point.Y THEN k
    ELSE FirstMatch(pts, point, k + 1)

\* A removal that truncates without the swap.
SwapRemoveLast(pts, i) == SubSeq(pts, 1, Len(pts) - 1)

\* n.Points[i] = n.Points[len-1]; n.Points = n.Points[:len-1]
SwapRemove(pts, i) ==
    SubSeq([pts EXCEPT ![i] = pts[Len(pts)]], 1, Len(pts) - 1)

\* A removal that reports a match and removes nothing.
RemoveNodeKeep(n, point) == [ok |-> Contains(n.Bounds, point), node |-> n]

RECURSIVE RemoveNode(_, _)
RECURSIVE RemoveChildren(_, _, _)

\* A removal that merges four empty children back into their parent.
RemoveChildrenCompact(n, point, i) ==
    IF i > 4 THEN [ok |-> FALSE, node |-> n]
    ELSE LET r  == RemoveNode(n.Children[i], point)
             n2 == [n EXCEPT !.Children[i] = r.node]
         IN  IF r.ok
             THEN [ok   |-> TRUE,
                   node |-> IF \A j \in 1..4 : n2.Children[j].Children = <<>>
                                               /\ n2.Children[j].Points = <<>>
                            THEN [n2 EXCEPT !.Children = <<>>]
                            ELSE n2]
             ELSE RemoveChildren(n, point, i + 1)

RemoveChildren(n, point, i) ==
    IF i > 4 THEN [ok |-> FALSE, node |-> n]
    ELSE LET r == RemoveNode(n.Children[i], point)
         IN  IF r.ok THEN [ok |-> TRUE, node |-> [n EXCEPT !.Children[i] = r.node]]
             ELSE RemoveChildren(n, point, i + 1)

RemoveNode(n, point) ==
    IF ~Contains(n.Bounds, point) THEN [ok |-> FALSE, node |-> n]
    ELSE IF ~IsLeaf(n) THEN RemoveChildren(n, point, 1)
    ELSE LET i == FirstMatch(n.Points, point, 1)
         IN  IF i = 0 THEN [ok |-> FALSE, node |-> n]
             ELSE [ok |-> TRUE, node |-> [n EXCEPT !.Points = SwapRemove(@, i)]]

\* ------------------------------------------------------------- KNearest

\* The order of the values Distance returns, kept as their squares:
\* Distance is math.Sqrt(dx*dx + dy*dy), math.Sqrt is increasing, and the
\* squares of the coordinates used are exact in float64, so two distances
\* compare as their squares do.
Distance(p1, p2) ==
    LET dx == Sub(p2.X, p1.X)
        dy == Sub(p2.Y, p1.Y)
    IN  dx * dx + dy * dy

\* The inner loop of sortByDistance: key moves down from position j + 1
\* past every entry of greater distance.
RECURSIVE SiftDown(_, _, _)
\* SiftDown that also moves key past entries of equal distance.
SiftDownPastEqual(points, key, j) ==
    IF j >= 1 /\ points[j].Distance >= key.Distance
    THEN SiftDown([points EXCEPT ![j + 1] = points[j]], key, j - 1)
    ELSE [points EXCEPT ![j + 1] = key]

SiftDown(points, key, j) ==
    IF j >= 1 /\ points[j].Distance > key.Distance
    THEN SiftDown([points EXCEPT ![j + 1] = points[j]], key, j - 1)
    ELSE [points EXCEPT ![j + 1] = key]

RECURSIVE SortFrom(_, _)
SortFrom(points, i) ==
    IF i > Len(points) THEN points
    ELSE SortFrom(SiftDown(points, points[i], i - 1), i + 1)

\* SiftDown with the comparison turned round.
RECURSIVE SiftDownReversed(_, _, _)
SiftDownReversed(points, key, j) ==
    IF j >= 1 /\ points[j].Distance < key.Distance
    THEN SiftDownReversed([points EXCEPT ![j + 1] = points[j]], key, j - 1)
    ELSE [points EXCEPT ![j + 1] = key]

RECURSIVE SortFromReversed(_, _)
SortFromReversed(points, i) ==
    IF i > Len(points) THEN points
    ELSE SortFromReversed(SiftDownReversed(points, points[i], i - 1), i + 1)

sortByDistanceReversed(points) == SortFromReversed(points, 2)

sortByDistance(points) == SortFrom(points, 2)

\* initialRadius := 10.0
InitialRadius == 10

\* The cap on maxPoints.
MaxPointsCap == 100000

\* The square the probe of half-width searchRadius searches.
SearchBounds(target, searchRadius) ==
    [X      |-> Sub(target.X, searchRadius),
     Y      |-> Sub(target.Y, searchRadius),
     Width  |-> Round(searchRadius * 2),
     Height |-> Round(searchRadius * 2)]

\* The probe loop from searchRadius on; results is what the probe before
\* left (nil before the first).  Returns the results the loop ends with and
\* the half-widths probed.
RECURSIVE ProbeLoop(_, _, _, _, _, _, _)
\* A probe loop without the break at len(results) >= k.
ProbeLoopPastK(n, target, k, maxPoints, searchRadius, maxRadius, sofar) ==
    IF ~(searchRadius <= maxRadius) THEN sofar
    ELSE LET results == SearchTree(n, SearchBounds(target, searchRadius))
             now     == [results |-> results,
                         radii   |-> Append(sofar.radii, searchRadius)]
         IN  IF searchRadius >= maxRadius THEN now
             ELSE IF Len(results) > maxPoints THEN now
             ELSE ProbeLoop(n, target, k, maxPoints, Round(searchRadius * 2),
                            maxRadius, now)

ProbeLoop(n, target, k, maxPoints, searchRadius, maxRadius, sofar) ==
    IF ~(searchRadius <= maxRadius) THEN sofar
    ELSE LET results == SearchTree(n, SearchBounds(target, searchRadius))
             now     == [results |-> results,
                         radii   |-> Append(sofar.radii, searchRadius)]
         IN  IF Len(results) >= k THEN now
             ELSE IF searchRadius >= maxRadius THEN now
             ELSE IF Len(results) > maxPoints THEN now
             ELSE ProbeLoop(n, target, k, maxPoints, Round(searchRadius * 2),
                            maxRadius, now)

\* The probes KNearest makes for k > 0.
Probes(n, target, k) ==
    LET maxPoints == IF k * 10 > MaxPointsCap THEN MaxPointsCap ELSE k * 10
        maxRadius == Round(Max2(n.Bounds.Width, n.Bounds.Height) * 2)
    IN  ProbeLoop(n, target, k, maxPoints, Float(InitialRadius), maxRadius,
                  [results |-> <<>>, radii |-> <<>>])

\* KNearest that takes a non-positive k for 1.
KNearestBodyAtLeastOne(n, target, k) ==
    LET kk      == IF k <= 0 THEN 1 ELSE k
        results == Probes(n, target, kk).results
    IN  IF Len(results) = 0 THEN <<>>
        ELSE LET pointsWithDist ==
                     sortByDistance(
                         [i \in 1..Len(results) |->
                             [Point    |-> results[i],
                              Distance |-> Distance(target, results[i])]])
                 cut == IF Len(pointsWithDist) > kk
                        THEN SubSeq(pointsWithDist, 1, kk)
                        ELSE pointsWithDist
             IN  [i \in 1..Len(cut) |-> cut[i].Point]

\* What KNearest returns on tree n.
KNearestBody(n, target, k) ==
    IF k <= 0 THEN <<>>
    ELSE LET results == Probes(n, target, k).results
         IN  IF Len(results) = 0 THEN <<>>
             ELSE LET pointsWithDist ==
                          sortByDistance(
                              [i \in 1..Len(results) |->
                                  [Point    |-> results[i],
                                   Distance |-> Distance(target, results[i])]])
                      cut == IF Len(pointsWithDist) > k
                             THEN SubSeq(pointsWithDist, 1, k)
                             ELSE pointsWithDist
                  IN  [i \in 1..Len(cut) |-> cut[i].Point]

\* ---------------------------------------------------------------- inputs

\* The points the callers pass.  The first seven lie in the root's bounds;
\* two pairs share their coordinates and differ in payload.  (16, 16) is the
\* root's centre, on the split lines of all four quadrants; (8, 8) is the
\* centre of the NW quadrant; (0, 0) and (32, 32) are corners of the root.
InPoints ==
    { Pt(0, 0, "a"), Pt(0, 0, "b"), Pt(8, 8, "a"), Pt(16, 16, "a"),
      Pt(16, 16, "b"), Pt(24, 8, "a"), Pt(32, 32, "a") }

\* A point outside the root's bounds.
OutPoints == { Pt(40, 8, "a") }

Points == InPoints \cup OutPoints

RootBounds == Rect(0, 0, 32, 32)

\* The areas the callers search: all of the root, the NW quadrant with its
\* split lines, the root's centre alone, a box around (24, 8), and a box
\* outside the root.
Areas ==
    { RootBounds, Rect(0, 0, 16, 16), Rect(16, 16, 0, 0), Rect(20, 4, 8, 8),
      Rect(40, 40, 8, 8) }

\* The targets of KNearest: a corner of the root, its centre, a point of the
\* NE quadrant, two points outside the root, one of them far away, and a
\* point of the SW quadrant that has (24, 8) in the corner of its second
\* probe and (0, 0) just outside it.
Targets ==
    { Pt(0, 0, "t"), Pt(16, 16, "t"), Pt(24, 8, "t"), Pt(40, 8, "t"),
      Pt(64, 64, "t"), Pt(4, 24, "t") }

\* The k of KNearest.
Ks == (0 - 1)..MaxK

\* ------------------------------------------------------------- the state

VARIABLES
    root,      \* qt.Root: the tree
    stored,    \* history: the bag of points inserted and not since removed
    last,      \* history: the call of the single caller, in progress or returned
    crashed,   \* the process died of a stack overflow
    th,        \* the concurrent callers: where each is in its call
    rw,        \* qt.Lock: the writer holding it (0: none) and its readers
    stable,    \* history: the tree when the last writer released the lock
    hist       \* history: the calls the concurrent callers have made

concVars == <<th, rw, stable, hist>>

vars == <<root, stored, last, crashed, th, rw, stable, hist>>

\* The bag of the elements of a sequence.
RECURSIVE SeqToBag(_)
SeqToBag(s) ==
    IF s = <<>> THEN EmptyBag ELSE SetToBag({Head(s)}) (+) SeqToBag(Tail(s))

\* Every point held anywhere in the tree, leaves and internal nodes alike,
\* in traversal order.
RECURSIVE AllPoints(_)
AllPoints(n) ==
    IF IsLeaf(n) THEN n.Points
    ELSE n.Points \o AllPoints(n.Children[1]) \o AllPoints(n.Children[2])
         \o AllPoints(n.Children[3]) \o AllPoints(n.Children[4])

TreeBag(n) == SeqToBag(AllPoints(n))

\* The stored point a removal at point's coordinates takes: the first one
\* with these coordinates in traversal order.
Victim(n, point) ==
    LET m == SearchTree(n, [X |-> point.X, Y |-> point.Y, Width |-> 0, Height |-> 0])
    IN  IF m = <<>> THEN EmptyBag ELSE SetToBag({Head(m)})

NoPoint == [X |-> 0, Y |-> 0, Data |-> "none"]

NoArea == [X |-> 0, Y |-> 0, Width |-> 0, Height |-> 0]

\* A call: the operation, its arguments, what it returned (ret, res) and the
\* tree it started from.
Call(op, p, q, area, k, ret, res, pre) ==
    [op |-> op, p |-> p, q |-> q, area |-> area, k |-> k, ret |-> ret,
     res |-> res, pre |-> pre]

NoCall == Call("none", NoPoint, NoPoint, NoArea, 0, FALSE, <<>>, <<>>)

\* The concurrent callers.
Threads == 1..NumThreads

\* A caller outside any call.
IdleThread ==
    [pc |-> "idle", op |-> "none", p |-> NoPoint, q |-> NoPoint,
     area |-> NoArea, k |-> 0, phase |-> "none", work |-> <<>>,
     ret |-> FALSE, res |-> <<>>]

NoHist == [n |-> 0, inserts |-> {}, others |-> FALSE, overlap |-> FALSE]

Init ==
    /\ \E cap \in 1..MaxCapacity : root = NewNode(RootBounds, cap)
    /\ stored = EmptyBag
    /\ last = NoCall
    /\ crashed = FALSE
    /\ th = [t \in Threads |-> IdleThread]
    /\ rw = [writer |-> 0, readers |-> {}]
    /\ stable = root
    /\ hist = NoHist

\* The caller is ready to make a call.
Idle == ~crashed /\ last = NoCall

\* ----------------------------------------------------------- the facade

\* A call that runs InsertNode and exhausts the stack kills the process:
\* nothing of the tree is left to look at.
Finish(r, stored2, call) ==
    /\ crashed' = r.overflow
    /\ root' = IF r.overflow THEN root ELSE r.node
    /\ stored' = IF r.overflow THEN stored ELSE stored2
    /\ last' = call
    /\ UNCHANGED concVars

\* QuadTree.Insert: qt.Root.InsertNode(point) under the write lock.
Insert(point) ==
    /\ Idle
    /\ BagCardinality(stored) < MaxStored
    /\ \E r \in {InsertNode(root, point, StackLimit)} :
          Finish(r, IF r.ok THEN stored (+) SetToBag({point}) ELSE stored,
                 Call("Insert", point, NoPoint, NoArea, 0, r.ok, <<>>, root))

\* QuadTree.Remove: qt.Root.RemoveNode(point) under the write lock.
Remove(point) ==
    /\ Idle
    /\ \E r \in {RemoveNode(root, point)} :
          Finish(Ret(r.ok, r.node, FALSE),
                 IF r.ok THEN stored (-) Victim(root, point) ELSE stored,
                 Call("Remove", point, NoPoint, NoArea, 0, r.ok, <<>>, root))

\* Update without the bounds check that comes before the removal.
UpdateBodyNoPrecheck(n, oldPoint, newPoint) ==
    LET rm == RemoveNode(n, oldPoint)
    IN  IF ~rm.ok THEN Ret(FALSE, n, FALSE)
        ELSE LET ins == InsertNode(rm.node, newPoint, StackLimit)
             IN  IF ins.overflow \/ ins.ok THEN ins
                 ELSE LET back == InsertNode(ins.node, oldPoint, StackLimit)
                      IN  Ret(FALSE, back.node, back.overflow)

\* Update that inserts newPoint whether or not oldPoint was removed.
UpdateBodyInsertAnyway(n, oldPoint, newPoint) ==
    IF ~Contains(n.Bounds, newPoint) THEN Ret(FALSE, n, FALSE)
    ELSE LET rm  == RemoveNode(n, oldPoint)
             ins == InsertNode(rm.node, newPoint, StackLimit)
         IN  IF ins.overflow THEN ins ELSE Ret(rm.ok /\ ins.ok, ins.node, FALSE)

\* The body of QuadTree.Update on tree n.
UpdateBody(n, oldPoint, newPoint) ==
    IF ~Contains(n.Bounds, newPoint) THEN Ret(FALSE, n, FALSE)
    ELSE LET rm == RemoveNode(n, oldPoint)
         IN  IF ~rm.ok THEN Ret(FALSE, n, FALSE)
             ELSE LET ins == InsertNode(rm.node, newPoint, StackLimit)
                  IN  IF ins.overflow \/ ins.ok THEN ins
                      ELSE LET back == InsertNode(ins.node, oldPoint, StackLimit)
                           IN  Ret(FALSE, back.node, back.overflow)

\* QuadTree.Update under the write lock.
Update(oldPoint, newPoint) ==
    /\ Idle
    /\ \E r \in {UpdateBody(root, oldPoint, newPoint)} :
          Finish(r,
                 IF r.ok
                 THEN (stored (-) Victim(root, oldPoint)) (+) SetToBag({newPoint})
                 ELSE stored,
                 Call("Update", oldPoint, newPoint, NoArea, 0, r.ok, <<>>, root))

\* A Search that hands out the root leaf's points by taking them from it.
SearchDraining(area) ==
    /\ Idle
    /\ last' = Call("Search", NoPoint, NoPoint, area, 0, TRUE,
                    SearchTree(root, area), root)
    /\ root' = IF IsLeaf(root) THEN [root EXCEPT !.Points = <<>>] ELSE root
    /\ UNCHANGED <<stored, crashed>>
    /\ UNCHANGED concVars

\* QuadTree.Search under the read lock.
Search(area) ==
    /\ Idle
    /\ last' = Call("Search", NoPoint, NoPoint, area, 0, TRUE,
                    SearchTree(root, area), root)
    /\ UNCHANGED <<root, stored, crashed>>
    /\ UNCHANGED concVars

\* QuadTree.KNearest under the read lock.
KNearest(target, k) ==
    /\ Idle
    /\ last' = Call("KNearest", target, NoPoint, NoArea, k, TRUE,
                    KNearestBody(root, target, k), root)
    /\ UNCHANGED <<root, stored, crashed>>
    /\ UNCHANGED concVars

\* The caller takes the result; the next call can start.
Return ==
    /\ ~crashed
    /\ last # NoCall
    /\ last' = NoCall
    /\ UNCHANGED <<root, stored, crashed>>
    /\ UNCHANGED concVars

Next ==
    \/ \E p \in Points : Insert(p)
    \/ \E p \in Points : Remove(p)
    \/ \E p \in Points, q \in Points : Update(p, q)
    \/ \E a \in Areas : Search(a)
    \/ \E t \in Targets, k \in Ks : KNearest(t, k)
    \/ Return

Spec == Init /\ [][Next]_vars

\* ------------------------------------------------ the round trip

\* The caller of a successful Insert(p) goes on to Remove(p) at once: the
\* call recorded is the pair, with the tree before the Insert and the tree
\* between the two calls as its result.
RemoveInserted ==
    /\ ~crashed
    /\ last.op = "Insert"
    /\ last.ret
    /\ \E r \in {RemoveNode(root, last.p)} :
          Finish(Ret(r.ok, r.node, FALSE),
                 IF r.ok THEN stored (-) Victim(root, last.p) ELSE stored,
                 Call("InsertRemove", last.p, NoPoint, NoArea, 0, r.ok,
                      <<last.pre, root>>, root))

NextRoundTrip ==
    \/ \E p \in Points : Insert(p)
    \/ \E p \in Points : Remove(p)
    \/ \E p \in Points, q \in Points : Update(p, q)
    \/ RemoveInserted
    \/ Return

SpecRoundTrip == Init /\ [][NextRoundTrip]_vars

\* ------------------------------------------------- the concurrent callers

\* The points, areas, targets and k the concurrent callers pass.  (0, 0) and
\* (8, 8) lie in the same quadrants down to depth 2.
ConcPoints == { Pt(0, 0, "a"), Pt(8, 8, "a"), Pt(16, 16, "a") }

ConcAreas == { RootBounds }

ConcTargets == { Pt(0, 0, "t") }

ConcKs == { 0, 1, 2 }

\* The operations that take qt.Lock.Lock(); the others take qt.Lock.RLock().
Writers == { "Insert", "Remove", "Update" }

Readers == { "Search", "KNearest" }

\* A lock whose readers do not wait for the writer.
CanRLockIgnoringWriter(t) == TRUE

\* A lock whose writers do not wait for the readers.
CanLockIgnoringReaders(t) == rw.writer = 0

\* A lock whose writers do not wait for each other.
CanLockIgnoringWriter(t) == rw.readers = {}

\* qt.Lock.Lock() returns: no writer and no reader holds the lock.
CanLock(t) == rw.writer = 0 /\ rw.readers = {}

\* A lock that admits one reader at a time.
CanRLockAlone(t) == rw.writer = 0 /\ rw.readers = {}

\* qt.Lock.RLock() returns: no writer holds the lock.
CanRLock(t) == rw.writer = 0

\* The pc of a caller that holds the lock.
Inside == { "locked", "loaded", "unlock" }

\* Caller t makes the call c: it is now blocked in Lock() or RLock().
\* KNearest with k <= 0 returns the empty sequence before it takes the lock.
Begin(t, c) ==
    /\ ~crashed
    /\ th[t].pc = "idle"
    /\ hist.n < MaxCalls
    /\ th' = IF c.op = "KNearest" /\ c.k <= 0 THEN th
             ELSE [th EXCEPT ![t] = [c EXCEPT !.pc = "want"]]
    /\ hist' = [n       |-> hist.n + 1,
                inserts |-> IF c.op = "Insert" THEN hist.inserts \cup {c.p}
                            ELSE hist.inserts,
                others  |-> hist.others \/ c.op # "Insert"
                            \/ (\E i \in hist.inserts : i.X = c.p.X /\ i.Y = c.p.Y),
                overlap |-> hist.overlap
                            \/ (\E u \in Threads \ {t} : th[u].pc # "idle")]
    /\ UNCHANGED <<root, stored, last, crashed, rw, stable>>

\* The calls a concurrent caller can make.
ThreadCall(op, p, q, area, k, phase) ==
    [IdleThread EXCEPT !.op = op, !.p = p, !.q = q, !.area = area, !.k = k,
                       !.phase = phase]

ConcCalls ==
    {ThreadCall("Insert", p, NoPoint, NoArea, 0, "insert") : p \in ConcPoints}
    \cup {ThreadCall("Remove", p, NoPoint, NoArea, 0, "remove") : p \in ConcPoints}
    \cup {ThreadCall("Update", p, q, NoArea, 0, "remove") : p \in ConcPoints, q \in ConcPoints}
    \cup {ThreadCall("Search", NoPoint, NoPoint, a, 0, "read") : a \in ConcAreas}
    \cup {ThreadCall("KNearest", p, NoPoint, NoArea, k, "read") : p \in ConcTargets, k \in ConcKs}

\* qt.Lock.Lock() of Insert, Remove and Update.
Lock(t) ==
    /\ ~crashed
    /\ th[t].pc = "want"
    /\ th[t].op \in Writers
    /\ CanLock(t)
    /\ rw' = [rw EXCEPT !.writer = t]
    /\ th' = [th EXCEPT ![t].pc = "locked"]
    /\ UNCHANGED <<root, stored, last, crashed, stable, hist>>

\* qt.Lock.RLock() of Search and KNearest.
RLock(t) ==
    /\ ~crashed
    /\ th[t].pc = "want"
    /\ th[t].op \in Readers
    /\ CanRLock(t)
    /\ rw' = [rw EXCEPT !.readers = @ \cup {t}]
    /\ th' = [th EXCEPT ![t].pc = "locked"]
    /\ UNCHANGED <<root, stored, last, crashed, stable, hist>>

\* An Update that inserts newPoint with the locking qt.Insert: the caller
\* waits in Lock() for the lock it holds.
LoadRelocking(t) ==
    /\ ~crashed
    /\ th[t].pc = "locked"
    /\ \E c \in {th[t]} :
          th' = [th EXCEPT ![t] =
                   IF c.op = "Update" /\ c.phase = "remove"
                      /\ ~Contains(root.Bounds, c.q)
                   THEN [c EXCEPT !.pc = "unlock", !.ret = FALSE]
                   ELSE IF c.op = "Update" /\ c.phase = "insert"
                   THEN [c EXCEPT !.pc = "want"]
                   ELSE [c EXCEPT !.pc = "loaded", !.work = root]]
    /\ UNCHANGED <<root, stored, last, crashed, rw, stable, hist>>

\* The call of a Node method reads the tree: the first half of
\* RemoveNode, InsertNode or SearchTree.  Update looks at the root's bounds
\* first and returns false when newPoint is outside them.
Load(t) ==
    /\ ~crashed
    /\ th[t].pc = "locked"
    /\ \E c \in {th[t]} :
          th' = [th EXCEPT ![t] =
                   IF c.op = "Update" /\ c.phase = "remove"
                      /\ ~Contains(root.Bounds, c.q)
                   THEN [c EXCEPT !.pc = "unlock", !.ret = FALSE]
                   ELSE [c EXCEPT !.pc = "loaded", !.work = root]]
    /\ UNCHANGED <<root, stored, last, crashed, rw, stable, hist>>

\* What the second half of the Node method of caller c does on the tree
\* c read: the result of the method, and the caller afterwards.
Step(c) ==
    IF c.phase = "remove"
    THEN LET r == RemoveNode(c.work, c.p)
         IN  [r    |-> Ret(r.ok, r.node, FALSE),
              gone |-> IF r.ok THEN Victim(c.work, c.p) ELSE EmptyBag,
              came |-> EmptyBag,
              c    |-> IF c.op = "Update" /\ r.ok
                       THEN [c EXCEPT !.pc = "locked", !.phase = "insert",
                                      !.work = <<>>]
                       ELSE [c EXCEPT !.pc = "unlock", !.ret = r.ok,
                                      !.work = <<>>]]
    ELSE IF c.phase = "insert"
    THEN LET point == IF c.op = "Update" THEN c.q ELSE c.p
             r     == InsertNode(c.work, point, StackLimit)
         IN  [r    |-> r,
              gone |-> EmptyBag,
              came |-> IF r.ok THEN SetToBag({point}) ELSE EmptyBag,
              c    |-> IF c.op = "Update" /\ ~r.ok
                       THEN [c EXCEPT !.pc = "locked", !.phase = "rollback",
                                      !.work = <<>>]
                       ELSE [c EXCEPT !.pc = "unlock", !.ret = r.ok,
                                      !.work = <<>>]]
    ELSE LET r == InsertNode(c.work, c.p, StackLimit)
         IN  [r    |-> r,
              gone |-> EmptyBag,
              came |-> IF r.ok THEN SetToBag({c.p}) ELSE EmptyBag,
              c    |-> [c EXCEPT !.pc = "unlock", !.ret = FALSE, !.work = <<>>]]

\* The second half of RemoveNode or InsertNode: the method writes the tree.
Store(t) ==
    /\ ~crashed
    /\ th[t].pc = "loaded"
    /\ th[t].op \in Writers
    /\ \E s \in {Step(th[t])} :
          /\ crashed' = s.r.overflow
          /\ root' = IF s.r.overflow THEN root ELSE s.r.node
          /\ stored' = IF s.r.overflow THEN stored
                       ELSE (stored (-) s.gone) (+) s.came
          /\ th' = IF s.r.overflow THEN th ELSE [th EXCEPT ![t] = s.c]
    /\ UNCHANGED <<last, rw, stable, hist>>

\* A query whose answer depends on who asks.
ReadByCaller(t) ==
    /\ ~crashed
    /\ th[t].pc = "loaded"
    /\ th[t].op \in Readers
    /\ \E c \in {th[t]} :
          th' = [th EXCEPT ![t] =
                   [c EXCEPT !.pc = "unlock", !.ret = TRUE,
                             !.res = IF t = 1
                                     THEN KNearestBody(c.work, c.p, c.k)
                                     ELSE <<>>]]
    /\ UNCHANGED <<root, stored, last, crashed, rw, stable, hist>>

\* The second half of SearchTree, and the rest of KNearest: the result.
\* The caller keeps the tree it read until it returns.
Read(t) ==
    /\ ~crashed
    /\ th[t].pc = "loaded"
    /\ th[t].op \in Readers
    /\ \E c \in {th[t]} :
          th' = [th EXCEPT ![t] =
                   [c EXCEPT !.pc = "unlock", !.ret = TRUE,
                             !.res = IF c.op = "Search"
                                     THEN SearchTree(c.work, c.area)
                                     ELSE KNearestBody(c.work, c.p, c.k)]]
    /\ UNCHANGED <<root, stored, last, crashed, rw, stable, hist>>

\* An unlock written out before "return true" only: a call that returns
\* false leaves the lock held.
UnlockLeak(t) ==
    /\ ~crashed
    /\ th[t].pc = "unlock"
    /\ rw' = IF ~th[t].ret THEN rw
             ELSE IF rw.writer = t THEN [rw EXCEPT !.writer = 0]
             ELSE [rw EXCEPT !.readers = @ \ {t}]
    /\ stable' = IF rw.writer = t THEN root ELSE stable
    /\ th' = [th EXCEPT ![t] = IdleThread]
    /\ UNCHANGED <<root, stored, last, crashed, hist>>

\* The deferred qt.Lock.Unlock() or qt.Lock.RUnlock(), and the return.
Unlock(t) ==
    /\ ~crashed
    /\ th[t].pc = "unlock"
    /\ rw' = IF rw.writer = t THEN [rw EXCEPT !.writer = 0]
             ELSE [rw EXCEPT !.readers = @ \ {t}]
    /\ stable' = IF rw.writer = t THEN root ELSE stable
    /\ th' = [th EXCEPT ![t] = IdleThread]
    /\ UNCHANGED <<root, stored, last, crashed, hist>>

NextConc ==
    \/ \E t \in Threads, c \in ConcCalls : Begin(t, c)
    \/ \E t \in Threads : Lock(t)
    \/ \E t \in Threads : RLock(t)
    \/ \E t \in Threads : Load(t)
    \/ \E t \in Threads : Store(t)
    \/ \E t \in Threads : Read(t)
    \/ \E t \in Threads : Unlock(t)

SpecConc == Init /\ [][NextConc]_vars

\* The steps of caller t around the body of its call: taking the lock,
\* entering a Node method, releasing the lock and returning.
Advance(t) == Lock(t) \/ RLock(t) \/ Load(t) \/ Unlock(t)

\* The body of the Node method caller t is in.
Compute(t) == Store(t) \/ Read(t)

\* Caller t is in the body of a Node method: Compute(t) can happen, and
\* changes th or crashed.
InBody(t) == ~crashed /\ th[t].pc = "loaded"

\* The scheduling of the callers: a goroutine that can take a step takes it,
\* and sync.RWMutex hands the lock to a caller that waits for it while it
\* is free.  No caller is obliged to make a call.  The weak fairness of
\* Compute(t) is written out, with InBody(t) as its enabling condition.
FairConc ==
    \A t \in Threads :
        /\ WF_vars(Advance(t))
        /\ ([]<>(~InBody(t)) \/ []<><<Compute(t)>>_vars)

SpecConcFair == SpecConc /\ FairConc

\* ------------------------------------------------- Bounds.Intersects alone

\* The rectangles Intersects is called on, in units of the arithmetic:
\* points, segments and boxes, some of them with X + Width rounded.
RectXs == { 0 - 4, 0, 3, 64, 132 }

RectWidths == { 0, 4, 64, 128 }

RectYs == { 0, 2 }

RectHeights == { 0, 2 }

Rects ==
    { [X |-> x, Y |-> y, Width |-> w, Height |-> h] :
        x \in RectXs, y \in RectYs, w \in RectWidths, h \in RectHeights }

\* b.Intersects(other), called on its own.
IntersectsCall(b, other) ==
    /\ Idle
    /\ last' = Call("Intersects", NoPoint, NoPoint, b, 0,
                    Intersects(b, other), <<>>, other)
    /\ UNCHANGED <<root, stored, crashed>>
    /\ UNCHANGED concVars

NextIntersects ==
    \/ \E b \in Rects, other \in Rects : IntersectsCall(b, other)
    \/ Return

SpecIntersects == Init /\ [][NextIntersects]_vars

\* ---------------------------------------------------------------- claims

\* p lies in the closed rectangle a (in exact arithmetic).
InRect(a, p) ==
    /\ p.X >= a.X /\ p.X <= a.X + a.Width
    /\ p.Y >= a.Y /\ p.Y <= a.Y + a.Height

\* The points of bag b that lie in a.
Restrict(b, a) ==
    LET S == {e \in BagToSet(b) : InRect(a, e)} IN [e \in S |-> b[e]]

RECURSIVE Depth(_)
Depth(n) ==
    IF IsLeaf(n) THEN 0
    ELSE 1 + Max4(Depth(n.Children[1]), Depth(n.Children[2]),
                  Depth(n.Children[3]), Depth(n.Children[4]))

\* The nodes of the tree under n, n included.
RECURSIVE Nodes(_)
Nodes(n) ==
    IF IsLeaf(n) THEN {n}
    ELSE {n} \cup Nodes(n.Children[1]) \cup Nodes(n.Children[2])
         \cup Nodes(n.Children[3]) \cup Nodes(n.Children[4])

\* C1: a Search returns exactly the stored points that lie in the area, each
\* once and with its payload.
SearchReturnsStored ==
    last.op = "Search" => SeqToBag(last.res) = Restrict(stored, last.area)

\* C2: an Insert of a point inside the root's bounds returns true and the
\* point is stored afterwards.
InsertAcceptsInBounds ==
    (last.op = "Insert" /\ InRect(RootBounds, last.p))
        => (~crashed /\ last.ret /\ BagIn(last.p, TreeBag(root)))

\* C3: every Insert, and every Update that inserts, runs to completion: the
\* recursion of InsertNode and SubDivide never exhausts the stack.
InsertTerminates == ~crashed

\* C4: no leaf holds more than Capacity points.
CapacityInvariant ==
    \A n \in Nodes(root) : IsLeaf(n) => Len(n.Points) <= n.Capacity

\* C4, its case: an insertion has just subdivided a node below the root and
\* left a leaf that is full.
CapacityWitness ==
    /\ ~crashed
    /\ last.op = "Insert"
    /\ last.ret
    /\ Depth(root) >= 2
    /\ Depth(root) > Depth(last.pre)
    /\ \E n \in Nodes(root) : IsLeaf(n) /\ Len(n.Points) = n.Capacity

\* The quadrant table: c are the four quadrants of b, each half as wide and
\* half as high as b (in exact arithmetic).
QuadrantTable(b, c) ==
    /\ c[1].X = b.X                   /\ c[1].Y = b.Y
    /\ 2 * c[2].X = 2 * b.X + b.Width /\ c[2].Y = b.Y
    /\ c[3].X = b.X                   /\ 2 * c[3].Y = 2 * b.Y + b.Height
    /\ 2 * c[4].X = 2 * b.X + b.Width /\ 2 * c[4].Y = 2 * b.Y + b.Height
    /\ \A i \in 1..4 : 2 * c[i].Width = b.Width /\ 2 * c[i].Height = b.Height

\* C5: the children of every subdivided node have the bounds of the quadrant
\* table, under the SubDivide of the index and under the SubDivide of
\* pkg/spatial/quadTree.go alike.
PartitionInvariant ==
    \A n \in Nodes(root) :
        ~IsLeaf(n) =>
            /\ QuadrantTable(n.Bounds, [i \in 1..4 |-> n.Children[i].Bounds])
            /\ QuadrantTable(n.Bounds, DraftChildBounds(n.Bounds))

\* C6: an Update returns true with one point at old's coordinates removed and
\* new stored, or returns false with the stored points as they were.
UpdateAllOrNothing ==
    last.op = "Update" =>
        /\ ~crashed
        /\ TreeBag(root) =
              IF last.ret
              THEN (TreeBag(last.pre) (-) Victim(last.pre, last.p))
                   (+) SetToBag({last.q})
              ELSE TreeBag(last.pre)

\* The square of the Euclidean distance between p1 and p2.
SqDist(p1, p2) ==
    (p2.X - p1.X) * (p2.X - p1.X) + (p2.Y - p1.Y) * (p2.Y - p1.Y)

\* C10: for k > 0, KNearest returns at most k points, in non-decreasing
\* order of their Euclidean distance from the target.
KNearestOrdered ==
    (last.op = "KNearest" /\ last.k > 0) =>
        /\ Len(last.res) <= last.k
        /\ \A i \in 1..(Len(last.res) - 1) :
              SqDist(last.p, last.res[i]) <= SqDist(last.p, last.res[i + 1])

\* C10, its case: on a subdivided tree KNearest has returned k >= 2 points,
\* fewer than are stored, at growing distances, and the search had found the
\* first of them after the second.
KNearestWitness ==
    /\ last.op = "KNearest"
    /\ last.k >= 2
    /\ Len(last.res) = last.k
    /\ ~IsLeaf(root)
    /\ BagCardinality(TreeBag(root)) > last.k
    /\ SqDist(last.p, last.res[1]) < SqDist(last.p, last.res[2])
    /\ LET found == Probes(root, last.p, last.k).results
       IN  \E i, j \in 1..Len(found) :
              i < j /\ found[j] = last.res[1] /\ found[i] = last.res[2]


\* The callers that hold the lock.
InsideThreads == { t \in Threads : th[t].pc \in Inside }

\* Caller u is between the removal and the insertion of its Update.
MidUpdate(u) ==
    th[u].op = "Update" /\ th[u].pc \in Inside /\ th[u].phase # "remove"
    /\ th[u].pc # "unlock"

\* C7: a Search or KNearest that runs while another caller executes Update
\* computes its result from the tree as a writer left it when it released
\* the lock, never from the tree between Update's removal and insertion:
\* no query holds the lock while an Update is between its two halves.
QuerySeesWholeUpdate ==
    \A t \in Threads :
        th[t].op \in Readers /\ th[t].pc \in Inside =>
            /\ (th[t].pc = "loaded" => th[t].work = stable)
            /\ \A u \in Threads : ~MidUpdate(u)
            /\ root = stable

\* An Update is between its removal and its insertion while a query of
\* another caller waits for the lock.
QueryWaitsForUpdate ==
    \E t, u \in Threads :
        /\ MidUpdate(u) /\ root # stable
        /\ th[t].op \in Readers /\ th[t].pc = "want"

\* C8: a caller inside the locked section of Insert, Remove or Update is
\* the only caller inside a locked section.
WritersExclusive ==
    \A t \in InsideThreads :
        th[t].op \in Writers => InsideThreads = {t}

\* A writer is in the middle of its mutation while another caller waits for
\* the lock.
WriterHoldsOthersOut ==
    \E t, u \in Threads :
        /\ th[t].op \in Writers /\ th[t].pc = "loaded"
        /\ th[u].pc = "want"

\* All calls have returned, and they were Inserts of points of pairwise
\* distinct coordinates.
OnlyDistinctInserts ==
    /\ ~crashed
    /\ \A t \in Threads : th[t].pc = "idle"
    /\ ~hist.others

Min2(a, b) == IF a <= b THEN a ELSE b

\* C11: for k > 0, KNearest returns min(k, number of points in the tree)
\* points, wherever the target lies.
KNearestLength ==
    (last.op = "KNearest" /\ last.k > 0) =>
        Len(last.res) = Min2(last.k, BagCardinality(TreeBag(root)))

\* C12: for k > 0, no point of the tree that KNearest leaves out is strictly
\* closer to the target than a point it returns.
KNearestNearest ==
    (last.op = "KNearest" /\ last.k > 0) =>
        LET out == TreeBag(root) (-) SeqToBag(last.res)
        IN  \A o \in BagToSet(out) : \A i \in 1..Len(last.res) :
                SqDist(last.p, o) >= SqDist(last.p, last.res[i])

\* Bag b holds a point with p's coordinates.
HasCoords(b, p) == \E e \in BagToSet(b) : e.X = p.X /\ e.Y = p.Y

\* C13: KNearest with k <= 0, or on a tree that holds no point, returns the
\* empty sequence and leaves the tree as it was.
KNearestEmpty ==
    (last.op = "KNearest" /\ (last.k <= 0 \/ TreeBag(last.pre) = EmptyBag)) =>
        last.res = <<>> /\ last.ret /\ ~crashed /\ root = last.pre

\* C13, its case: KNearest with k <= 0 has returned on a tree that holds a
\* point inside the first probe.
KNearestEmptyWitness ==
    /\ last.op = "KNearest"
    /\ last.k <= 0
    /\ SearchTree(root, SearchBounds(last.p, Float(InitialRadius))) # <<>>

\* C15: Insert of a point outside the root's bounds returns false and
\* leaves the tree as it was.
InsertOutOfBounds ==
    (last.op = "Insert" /\ ~InRect(RootBounds, last.p)) =>
        ~crashed /\ ~last.ret /\ root = last.pre

\* C15, its case: the point was refused by a root that is a full leaf.
InsertOutOfBoundsWitness ==
    /\ last.op = "Insert"
    /\ ~InRect(RootBounds, last.p)
    /\ IsLeaf(last.pre)
    /\ Len(last.pre.Points) = last.pre.Capacity

\* C16: Remove of a point outside the root's bounds, or of a point whose
\* coordinates no point of the tree has, returns false and leaves the tree
\* as it was.
RemoveNoMatch ==
    (last.op = "Remove"
        /\ (~InRect(RootBounds, last.p) \/ ~HasCoords(TreeBag(last.pre), last.p)))
    => ~last.ret /\ root = last.pre

\* C16, its case: a point inside the bounds of a subdivided tree whose
\* coordinates none of the tree's points has.
RemoveNoMatchWitness ==
    /\ last.op = "Remove"
    /\ InRect(RootBounds, last.p)
    /\ ~HasCoords(TreeBag(last.pre), last.p)
    /\ ~IsLeaf(last.pre)
    /\ TreeBag(last.pre) # EmptyBag

\* C17: Update with new outside the root's bounds returns false and leaves
\* the tree as it was, old included.
UpdateOutOfBounds ==
    (last.op = "Update" /\ ~InRect(RootBounds, last.q)) =>
        ~crashed /\ ~last.ret /\ root = last.pre

\* C17, its case: old is in the tree, before another point of its leaf.
UpdateOutOfBoundsWitness ==
    /\ last.op = "Update"
    /\ ~InRect(RootBounds, last.q)
    /\ HasCoords(TreeBag(last.pre), last.p)
    /\ \E n \in Nodes(last.pre) :
          /\ Len(n.Points) >= 2
          /\ n.Points[1].X = last.p.X /\ n.Points[1].Y = last.p.Y

\* C18: Update with no point of old's coordinates in the tree returns false
\* and leaves the tree as it was, new not inserted.
UpdateNoMatch ==
    (last.op = "Update" /\ ~HasCoords(TreeBag(last.pre), last.p)) =>
        ~crashed /\ ~last.ret /\ root = last.pre

\* C18, its case: new is inside the bounds and the tree holds other points.
UpdateNoMatchWitness ==
    /\ last.op = "Update"
    /\ ~HasCoords(TreeBag(last.pre), last.p)
    /\ InRect(RootBounds, last.q)
    /\ InRect(RootBounds, last.p)
    /\ TreeBag(last.pre) # EmptyBag

\* C19: Remove of a point whose coordinates a point of the tree has returns
\* true and takes exactly one point of those coordinates out of the tree.
RemoveOneMatch ==
    (last.op = "Remove" /\ HasCoords(TreeBag(last.pre), last.p)) =>
        /\ last.ret
        /\ \E v \in BagToSet(TreeBag(last.pre)) :
              /\ v.X = last.p.X /\ v.Y = last.p.Y
              /\ TreeBag(root) = TreeBag(last.pre) (-) SetToBag({v})

\* C19, its case: below a subdivided root two points share the coordinates,
\* on the split lines, and the one removed is the one of the other payload.
RemoveOneMatchWitness ==
    /\ last.op = "Remove"
    /\ last.ret
    /\ ~IsLeaf(last.pre)
    /\ BagIn(last.p, TreeBag(root))
    /\ CopiesIn(last.p, TreeBag(root)) = CopiesIn(last.p, TreeBag(last.pre))
    /\ BagCardinality(TreeBag(last.pre)) = 3
    /\ last.p.X = Float(16) /\ last.p.Y = Float(16)

Matches(n, a) == Len(SearchTree(n, a))

\* C20: after Insert(p) and Remove(p), Search over any area that contains p
\* returns one match fewer than it did between the two calls: the Remove
\* takes back exactly one match.
RoundTrip ==
    last.op = "InsertRemove" =>
        /\ last.ret
        /\ \A a \in Areas :
              InRect(a, last.p) =>
                  Matches(root, a) = Matches(last.res[2], a) - 1

\* C20 as stated: after Insert(p) and Remove(p), Search over any area that
\* contains p returns one match fewer than before the Insert.
RoundTripOneFewerThanBefore ==
    last.op = "InsertRemove" =>
        \A a \in Areas :
            InRect(a, last.p) =>
                Matches(root, a) = Matches(last.res[1], a) - 1

\* C20, its case: the Insert subdivided a leaf that held a point of p's
\* coordinates, and two of the areas searched contain p.
RoundTripWitness ==
    /\ last.op = "InsertRemove"
    /\ last.ret
    /\ IsLeaf(last.res[1])
    /\ ~IsLeaf(last.res[2])
    /\ HasCoords(TreeBag(last.res[1]), last.p)
    /\ Cardinality({a \in Areas : InRect(a, last.p)}) >= 2

\* C21: a caller that is not inside a call holds neither the read lock nor
\* the write lock: the lock is held only by callers between their Lock or
\* RLock and their return.
LockReleased ==
    /\ \A t \in Threads :
          th[t].pc \in {"idle", "want"} => rw.writer # t /\ t \notin rw.readers
    /\ rw.writer # 0 => th[rw.writer].pc \in Inside
    /\ \A t \in rw.readers : th[t].pc \in Inside

\* C21, its case: every call made has returned, none of them an Insert, so
\* each was a Remove or an Update that returned false or a query with an
\* empty result; the callers have overlapped.
FailedCallsReturned ==
    /\ \A t \in Threads : th[t].pc = "idle"
    /\ hist.n = MaxCalls
    /\ hist.inserts = {}
    /\ hist.overlap
    /\ rw = [writer |-> 0, readers |-> {}]

\* C22: every node is a leaf, or has its four children and no points of
\* its own.
LeafOrInternal ==
    \A n \in Nodes(root) :
        IsLeaf(n) \/ (Len(n.Children) = 4 /\ n.Points = <<>>)

\* C22, its case: a subdivided node below a subdivided root, with points
\* in the leaves.
LeafOrInternalWitness ==
    /\ Depth(root) >= 2
    /\ BagCardinality(TreeBag(root)) >= 2
    /\ last.op = "Insert"

\* The points in the leaves under n pass the closed rectangle test of their
\* leaf and of the nodes of bounds bs above n.
RECURSIVE PointsWithin(_, _)
PointsWithin(n, bs) ==
    LET all == Append(bs, n.Bounds)
    IN  IF IsLeaf(n)
        THEN \A i \in 1..Len(n.Points) : \A j \in 1..Len(all) :
                Contains(all[j], n.Points[i])
        ELSE \A i \in 1..4 : PointsWithin(n.Children[i], all)

\* C23: every point in a leaf passes the closed rectangle test of the leaf
\* and of every ancestor of the leaf.
PointsInBounds == PointsWithin(root, <<>>)

\* C23, its case: points in leaves two levels below the root, one of them
\* on a split line.
PointsInBoundsWitness ==
    /\ Depth(root) >= 2
    /\ BagCardinality(TreeBag(root)) = 3
    /\ HasCoords(TreeBag(root), Pt(16, 16, "a"))
    /\ last.op = "Update"
    /\ last.ret

\* C24: SubDivide of a leaf of the tree leaves in the leaf's subtree exactly
\* the points the leaf held.
SubDivideConserves ==
    \A n \in Nodes(root) :
        IsLeaf(n) =>
            LET d == SubDivide(n, StackLimit)
            IN  d.overflow \/ TreeBag(d.node) = SeqToBag(n.Points)

\* C25: a point is stored under the first child, in the order NW, NE, SW,
\* SE, whose closed bounds contain it.
FirstChildOwns ==
    \A n \in Nodes(root) :
        ~IsLeaf(n) =>
            \A i \in 1..4 : \A p \in BagToSet(TreeBag(n.Children[i])) :
                \A j \in 1..(i - 1) : ~Contains(n.Children[j].Bounds, p)

\* C28: every node has the root's Capacity, and a call leaves the root its
\* Bounds and its Capacity.
CapacityUniform ==
    /\ \A n \in Nodes(root) : n.Capacity = root.Capacity
    /\ root.Bounds = RootBounds
    /\ last # NoCall => root.Capacity = last.pre.Capacity

\* C28, its case: a root of Capacity 2 with nodes two levels below it.
CapacityUniformWitness ==
    /\ root.Capacity = 2
    /\ Depth(root) >= 2
    /\ last.op = "Insert"
    /\ last.ret

\* The leaves of tree pre that are subdivided in tree post.
RECURSIVE Splits(_, _)
Splits(pre, post) ==
    IF IsLeaf(post) THEN {}
    ELSE IF IsLeaf(pre) THEN {pre}
    ELSE UNION {Splits(pre.Children[i], post.Children[i]) : i \in 1..4}

\* The tree a call inserts into, and the point it inserts: Update inserts
\* new after it has removed old.
InsertedInto ==
    IF last.op = "Update" THEN RemoveNode(last.pre, last.p).node ELSE last.pre

InsertedPoint == IF last.op = "Update" THEN last.q ELSE last.p

\* C26: a call subdivides a leaf only by inserting, into a leaf that holds
\* Capacity points, a point inside the leaf's and the root's bounds; Remove,
\* Search and KNearest subdivide nothing, and an Insert into a root leaf
\* with room leaves the root a leaf with the point appended.
LazySubdivision ==
    (last # NoCall /\ ~crashed) =>
        /\ last.op \in {"Remove", "Search", "KNearest"} =>
              Splits(last.pre, root) = {}
        /\ last.op \in {"Insert", "Update"} =>
              \A n \in Splits(InsertedInto, root) :
                  /\ Len(n.Points) = n.Capacity
                  /\ Contains(n.Bounds, InsertedPoint)
                  /\ InRect(RootBounds, InsertedPoint)
        /\ (/\ last.op = "Insert"
            /\ IsLeaf(last.pre)
            /\ Len(last.pre.Points) < last.pre.Capacity
            /\ InRect(RootBounds, last.p))
           => root = [last.pre EXCEPT !.Points = Append(@, last.p)]

\* C26, its case: an Insert has subdivided a full leaf below the root of a
\* tree of Capacity 2.
LazySubdivisionWitness ==
    /\ last.op = "Insert"
    /\ ~crashed
    /\ ~IsLeaf(last.pre)
    /\ last.pre.Capacity = 2
    /\ Splits(last.pre, root) # {}

\* Tree b has every node of tree a, with a's bounds, a's subdivided nodes
\* subdivided still.
RECURSIVE Extends(_, _)
Extends(a, b) ==
    /\ a.Bounds = b.Bounds
    /\ IsLeaf(a) \/ (~IsLeaf(b) /\ \A i \in 1..4 :
                                     Extends(a.Children[i], b.Children[i]))

\* C27: no step makes a subdivided node a leaf again, replaces its children
\* or changes a node's bounds.
Irreversible == [][Extends(root, root')]_vars

\* C27, its case: a Remove has taken the last point out of a tree that has
\* nodes two levels below the root.
IrreversibleWitness ==
    /\ last.op = "Remove"
    /\ last.ret
    /\ TreeBag(root) = EmptyBag
    /\ Depth(root) >= 2

\* C29: an Update that returns true leaves the number of stored points as it
\* was, keeps every stored point but the one it removed, and stores new
\* with new's payload.
UpdateFrame ==
    (last.op = "Update" /\ last.ret) =>
        /\ BagCardinality(TreeBag(root)) = BagCardinality(TreeBag(last.pre))
        /\ (TreeBag(last.pre) (-) Victim(last.pre, last.p))
               \sqsubseteq TreeBag(root)
        /\ BagIn(last.q, TreeBag(root))

\* C30: whenever new passes Update's bounds check and the removal of old
\* succeeds, the insertion of new returns true.
RollbackUnreachable ==
    (/\ last.op = "Update"
     /\ Contains(last.pre.Bounds, last.q)
     /\ RemoveNode(last.pre, last.p).ok)
    => InsertNode(RemoveNode(last.pre, last.p).node, last.q, StackLimit).ok

\* C31: Search and KNearest return to the tree they were called on: the same
\* nodes, bounds and points, each leaf's points in the same order.
QueriesPure ==
    last.op \in {"Search", "KNearest"} => root = last.pre

\* C31, its case: a KNearest with k > 0 has returned points of a subdivided
\* tree.
QueriesPureWitness ==
    /\ last.op = "KNearest"
    /\ last.k > 0
    /\ Len(last.res) > 0
    /\ ~IsLeaf(last.pre)

\* The square of half-width r centred on target, in exact arithmetic.
Square(target, r) ==
    [X |-> target.X - r, Y |-> target.Y - r, Width |-> 2 * r, Height |-> 2 * r]

\* C32: for k > 0 the probe loop ends; its i-th probe searches the square of
\* half-width 10 * 2^(i-1) centred on target, no half-width is above
\* 2 * max(root width, root height), every probe before the last returned
\* fewer than k points, and the results are those of the last probe.
ProbeSchedule ==
    (last.op = "KNearest" /\ last.k > 0) =>
        LET probes    == Probes(last.pre, last.p, last.k)
            radii     == probes.radii
            maxRadius == 2 * Max2(last.pre.Bounds.Width,
                                  last.pre.Bounds.Height)
        IN  /\ \A i \in 1..Len(radii) :
                  /\ radii[i] = Float(InitialRadius) * Pow2(i - 1)
                  /\ radii[i] <= maxRadius
                  /\ SearchBounds(last.p, radii[i]) = Square(last.p, radii[i])
            /\ \A i \in 1..(Len(radii) - 1) :
                  Len(SearchTree(last.pre, Square(last.p, radii[i]))) < last.k
            /\ probes.results =
                  IF Len(radii) = 0 THEN <<>>
                  ELSE SearchTree(last.pre,
                                  Square(last.p, radii[Len(radii)]))

\* C32, its case: a KNearest has widened its probe at least once and
\* stopped, below the largest half-width, at a probe that returned k points.
ProbeScheduleWitness ==
    /\ last.op = "KNearest"
    /\ last.k > 0
    /\ LET probes == Probes(last.pre, last.p, last.k)
       IN  /\ Len(probes.radii) >= 2
           /\ Len(probes.results) >= last.k
           /\ 2 * probes.radii[Len(probes.radii)]
                 <= 2 * Max2(last.pre.Bounds.Width, last.pre.Bounds.Height)

\* The candidates of the last probe of a KNearest call, each with its
\* distance and its position in the probe's result, as sortByDistance
\* leaves them.
SortedCandidates ==
    LET results == Probes(last.pre, last.p, last.k).results
    IN  sortByDistance([i \in 1..Len(results) |->
                           [Point    |-> results[i],
                            Distance |-> Distance(last.p, results[i]),
                            Found    |-> i]])

\* C33: sortByDistance returns a permutation of its input in which entries
\* of equal distance keep the order the last probe found them in, and
\* KNearest returns the first k of it.
TiesInDiscoveryOrder ==
    (last.op = "KNearest" /\ last.k > 0) =>
        LET sorted == SortedCandidates
            n      == Len(Probes(last.pre, last.p, last.k).results)
        IN  /\ Len(sorted) = n
            /\ {sorted[i].Found : i \in 1..n} = 1..n
            /\ \A i \in 1..n :
                  sorted[i].Point =
                      Probes(last.pre, last.p, last.k).results[sorted[i].Found]
            /\ \A i, j \in 1..n :
                  (i < j /\ sorted[i].Distance = sorted[j].Distance)
                      => sorted[i].Found < sorted[j].Found
            /\ last.res = [i \in 1..Min2(last.k, n) |-> sorted[i].Point]

\* C33, its case: a KNearest has returned two different points at the same
\* distance from target.
TiesWitness ==
    /\ last.op = "KNearest"
    /\ \E i, j \in 1..Len(last.res) :
          /\ i < j
          /\ last.res[i] # last.res[j]
          /\ Distance(last.p, last.res[i]) = Distance(last.p, last.res[j])

\* Caller t holds the lock, for writing or for reading.
Holds(t) == rw.writer = t \/ t \in rw.readers

\* A step gives the lock only to a caller that waits for it and does not
\* hold it, and a call takes the lock once: from taking it to returning, the
\* caller holds it.
AcquireOnce ==
    \A t \in Threads :
        /\ (Holds(t)' /\ ~Holds(t)) => (th[t].pc = "want")
        /\ (th[t].pc \in Inside)' => Holds(t)'
        /\ (th[t].pc = "want")' => ~Holds(t)'

\* C34: no call takes the lock while it holds it, and every call that is
\* made returns, unless the process has died of a stack overflow.
NoDeadlock ==
    /\ [][AcquireOnce]_vars
    /\ \A t \in Threads :
          (th[t].pc # "idle") ~> (th[t].pc = "idle" \/ crashed)

\* C34, its case: an Update waits for the lock while the other caller holds
\* it for an Update that has removed its old point and has still to insert
\* the new one.
NoDeadlockWitness ==
    /\ th[1].pc = "want"
    /\ th[1].op = "Update"
    /\ rw.writer = 2
    /\ th[2].op = "Update"
    /\ th[2].phase = "insert"

\* C35: a Search or KNearest that waits for the lock while no writer holds
\* it or waits for it can take it, whichever readers hold it, and while a
\* reader holds the lock every caller inside a locked section is a Search
\* or a KNearest.
ReadersShare ==
    /\ \A t \in Threads :
          (/\ ~crashed
           /\ th[t].pc = "want" /\ th[t].op \in Readers
           /\ rw.writer = 0
           /\ \A u \in Threads :
                  ~(th[u].pc = "want" /\ th[u].op \in Writers))
              => ENABLED RLock(t)
    /\ rw.readers # {} =>
          \A u \in InsideThreads : th[u].op \in Readers /\ u \in rw.readers

\* C35, its case: two callers are inside their read-locked sections at the
\* same time, one in Search and one in KNearest, both with the tree read.
TwoReadersInside ==
    \E t, u \in Threads :
        /\ t # u
        /\ rw.readers = {t, u}
        /\ th[t].op = "Search" /\ th[t].pc = "loaded"
        /\ th[u].op = "KNearest" /\ th[u].pc = "loaded"

\* The coordinates a point can have near the rectangles of Rects.
NearXs == { v \in (0 - 8)..272 : Round(v) = v }

NearYs == (0 - 2)..6

\* Rectangles a and b have a point in common: some point is within the
\* closed bounds of both.
SharePoint(a, b) ==
    \E x \in NearXs, y \in NearYs :
        /\ Contains(a, [X |-> x, Y |-> y, Data |-> "none"])
        /\ Contains(b, [X |-> x, Y |-> y, Data |-> "none"])

\* C36: for rectangles of non-negative width and height, a.Intersects(b) is
\* b.Intersects(a), and is true exactly when a and b have a point in common.
IntersectsSymmetric ==
    last.op = "Intersects" =>
        /\ last.ret = Intersects(last.pre, last.area)
        /\ last.ret = SharePoint(last.area, last.pre)

\* C36, its case: Intersects was called on two rectangles that touch along
\* an edge and have nothing else in common.
IntersectsWitness ==
    /\ last.op = "Intersects"
    /\ last.ret
    /\ last.area.Width > 0 /\ last.area.Height > 0
    /\ last.pre.Width > 0 /\ last.pre.Height > 0
    /\ last.area.X + last.area.Width = last.pre.X


=========================================================================
